---- MODULE Spec2Model ----
(***************************************************************************)
(* supabase/functions-js: the FunctionsClient (setAuth, invoke) in its two *)
(* source variants.                                                        *)
(*   - src/unnamed/part_002: invoke(functionName, input, invokeOptions)    *)
(*     with requestTransform / responseTransform and the five error        *)
(*     classes (names without prefix below);                               *)
(*   - src/src/index.ts: invoke(functionName, {headers, body,              *)
(*     responseType}) (names with the prefix Idx below).                   *)
(* A behaviour runs one of the two variants (variable variant, fixed at    *)
(* construction). One invoke call is in flight at a time (variable call);  *)
(* it is suspended at each await of the source, and setAuth may run while  *)
(* it is suspended.                                                        *)
(* JavaScript values are records [t |-> type tag, v |-> printed content].  *)
(***************************************************************************)
EXTENDS Integers, Sequences, FiniteSets, TLC

VARIABLES variant, headers, idxHeaders, shouldThrowOnError, call

vars == <<variant, headers, idxHeaders, shouldThrowOnError, call>>

\* ----------------------------------------------------------------- bounds
\* Number of distinct auth tokens setAuth is called with.
MaxTokens == 2
\* Number of ";"-separated parameters a response Content-Type may carry.
MaxParams == 1

\* ------------------------------------------------------ JavaScript values
Val(t, v) == [t |-> t, v |-> v]
Str(s) == Val("string", s)
Undefined == Val("undefined", "")
JsNull == Val("null", "")
\* A native exception object, named by its class (TypeError, SyntaxError, ...).
Exc(s) == Val("error", s)

\* The inputs handed to invoke.
ObjText == "{\"foo\":\"bar\"}"
Inputs ==
  { Val("Blob", "bytes"), Val("File", "bytes"), Val("ArrayBuffer", "bytes"),
    Str("hello"), Val("FormData", "a=1"), Val("object", ObjText),
    Val("object", "<cycle>"), JsNull, Undefined }

\* data instanceof cls, along the prototype chain (File inherits Blob).
InstanceOf(data, cls) ==
  \/ data.t = cls
  \/ cls = "Blob" /\ data.t = "File"

\* typeof data
TypeOf(data) ==
  IF data.t \in {"string", "undefined"} THEN data.t ELSE "object"

\* JSON.stringify(data): [ok, val]; a cyclic object throws a TypeError,
\* undefined encodes to undefined.
JSONstringify(data) ==
  CASE data.v = "<cycle>" -> [ok |-> FALSE, val |-> Exc("TypeError")]
    [] data.t = "undefined" -> [ok |-> TRUE, val |-> Undefined]
    [] data.t = "null" -> [ok |-> TRUE, val |-> Str("null")]
    [] OTHER -> [ok |-> TRUE, val |-> Str(data.v)]

\* JSON.parse(text): [ok, val].
JSONparse(text) ==
  CASE text = ObjText -> [ok |-> TRUE, val |-> Val("object", ObjText)]
    [] text = "null" -> [ok |-> TRUE, val |-> JsNull]
    [] OTHER -> [ok |-> FALSE, val |-> Exc("SyntaxError")]

\* ---------------------------------------------------------------- headers
\* A Headers object: lower-cased name -> value, Absent when not set.
Absent == "<absent>"
HeaderNames == {"authorization", "content-type", "x-custom"}
EmptyHeaders == [n \in HeaderNames |-> Absent]

\* Header names are case-insensitive: Headers lower-cases them.
Lower(n) ==
  CASE n \in {"Authorization", "AUTHORIZATION", "authorization"} -> "authorization"
    [] n \in {"Content-Type", "content-type"} -> "content-type"
    [] n \in {"x-custom", "X-Custom"} -> "x-custom"
    [] OTHER -> n
\* A header name with a space is no valid token: Headers throws a TypeError.
ValidName(n) == Lower(n) \in HeaderNames

\* Headers.prototype.set / delete
HeadersSet(h, n, v) == [h EXCEPT ![Lower(n)] = v]
HeadersDelete(h, n) == [h EXCEPT ![Lower(n)] = Absent]
\* Headers.prototype.append: a second value for a name is joined with ", ".
HeadersAppend(h, n, v) ==
  [h EXCEPT ![Lower(n)] = IF @ = Absent THEN v ELSE @ \o ", " \o v]

\* A HeadersInit: either a Headers object (kind "Headers", field map) or a
\* plain record of name/value pairs in key order (kind "record", field
\* list), or undefined (kind "undefined").
HInitHeaders(h) == [kind |-> "Headers", map |-> h, list |-> <<>>]
HInitRecord(l) == [kind |-> "record", map |-> EmptyHeaders, list |-> l]
HInitUndefined == [kind |-> "undefined", map |-> EmptyHeaders, list |-> <<>>]

RECURSIVE FillHeaders(_, _)
FillHeaders(h, l) ==
  IF l = <<>> THEN h
  ELSE FillHeaders(HeadersAppend(h, l[1].n, l[1].v), Tail(l))

\* new Headers(init): [ok, val]; throws on an invalid header name.
NewHeaders(init) ==
  CASE init.kind = "Headers" -> [ok |-> TRUE, val |-> init.map]
    [] init.kind = "undefined" -> [ok |-> TRUE, val |-> EmptyHeaders]
    [] OTHER ->
        IF \E i \in 1..Len(init.list) : ~ValidName(init.list[i].n)
        THEN [ok |-> FALSE, val |-> EmptyHeaders]
        ELSE [ok |-> TRUE, val |-> FillHeaders(EmptyHeaders, init.list)]

\* `Bearer ${token}`
Bearer(token) == "Bearer " \o token
Tokens == {"tok" \o ToString(i) : i \in 1..MaxTokens}

\* -------------------------------------------------------------------- URL
\* A URL is [host, path]; a URL string is a sequence of tokens.
\* The base URL given to the constructor (new URL(url) / this.url = url).
BaseTokens == <<"https:", "//", "proj.supabase.co", "/", "functions", "/", "v1">>
OtherHost == "evil.example"
FunctionNames ==
  { <<"hello">>, <<"/", "hello">>, <<"..", "/", "hello">>,
    <<"//", OtherHost, "/", "x">>, <<"http:", "//", OtherHost, "/", "x">>,
    <<"http:", "//">> }

\* The path segments of a token sequence, "." and ".." resolved.
RECURSIVE Segments(_, _)
Segments(acc, toks) ==
  IF toks = <<>> THEN acc
  ELSE CASE toks[1] = "/" -> Segments(acc, Tail(toks))
         [] toks[1] = ".." ->
              Segments(IF acc = <<>> THEN acc ELSE SubSeq(acc, 1, Len(acc) - 1),
                       Tail(toks))
         [] OTHER -> Segments(Append(acc, toks[1]), Tail(toks))

IsScheme(tok) == tok \in {"http:", "https:"}

\* The URL parser applied to an absolute URL string: [ok, val].
ParseURL(toks) ==
  IF Len(toks) >= 3 /\ IsScheme(toks[1]) /\ toks[2] = "//"
  THEN [ok |-> TRUE,
        val |-> [host |-> toks[3], path |-> Segments(<<>>, SubSeq(toks, 4, Len(toks)))]]
  ELSE [ok |-> FALSE, val |-> [host |-> "", path |-> <<>>]]

\* A variant of the resolution that falls back to the base URL where the
\* standard one throws.
NewURLLenient(name, base) ==
  CASE name # <<>> /\ IsScheme(name[1]) ->
         IF ParseURL(name).ok THEN ParseURL(name) ELSE [ok |-> TRUE, val |-> base]
    [] name # <<>> /\ name[1] = "//" ->
         [ok |-> TRUE,
          val |-> [host |-> IF Len(name) >= 2 THEN name[2] ELSE base.host,
                   path |-> Segments(<<>>, SubSeq(name, 3, Len(name)))]]
    [] name # <<>> /\ name[1] = "/" ->
         [ok |-> TRUE, val |-> [host |-> base.host, path |-> Segments(<<>>, name)]]
    [] OTHER ->
         [ok |-> TRUE,
          val |-> [host |-> base.host,
                   path |-> Segments(IF base.path = <<>> THEN <<>>
                                     ELSE SubSeq(base.path, 1, Len(base.path) - 1),
                                     name)]]

\* new URL(name, base): [ok, val], standard relative resolution.
NewURL(name, base) ==
  CASE name # <<>> /\ IsScheme(name[1]) -> ParseURL(name)
    [] name # <<>> /\ name[1] = "//" ->
         IF Len(name) >= 2
         THEN [ok |-> TRUE,
               val |-> [host |-> name[2], path |-> Segments(<<>>, SubSeq(name, 3, Len(name)))]]
         ELSE [ok |-> FALSE, val |-> base]
    [] name # <<>> /\ name[1] = "/" ->
         [ok |-> TRUE, val |-> [host |-> base.host, path |-> Segments(<<>>, name)]]
    [] OTHER ->
         [ok |-> TRUE,
          val |-> [host |-> base.host,
                   path |-> Segments(IF base.path = <<>> THEN <<>>
                                     ELSE SubSeq(base.path, 1, Len(base.path) - 1),
                                     name)]]

\* this.url of the part_002 client: new URL(url).
BaseURL == ParseURL(BaseTokens).val

\* ----------------------------------------------------------------- errors
\* An error object: cls is its class (instanceof), name its name property,
\* status 0 stands for "no status property".
NoError ==
  [cls |-> "null", name |-> JsNull, message |-> "", context |-> Undefined,
   data |-> Undefined, status |-> 0, statusText |-> ""]

\* A native exception (the value `exc`) seen as an error object.
NativeError(exc) ==
  [cls |-> exc.v, name |-> Str(exc.v), message |-> "", context |-> Undefined,
   data |-> Undefined, status |-> 0, statusText |-> ""]

\* class FunctionsError: constructor(message, name = 'FunctionsError', context)
FunctionsError(cls, message, name, context) ==
  [cls |-> cls, name |-> IF name = Undefined THEN Str("FunctionsError") ELSE name,
   message |-> "FunctionsError: " \o message, context |-> context,
   data |-> Undefined, status |-> 0, statusText |-> ""]

SerializationError(context) ==
  FunctionsError("SerializationError",
                 "Failed to serialize input data into a proper Request object",
                 Str("SerializationError"), context)

DeserializationError(context) ==
  FunctionsError("DeserializationError",
                 "Failed to deserialize the Response object into output data",
                 Str("DeserializationError"), context)

\* A variant of FetchError that drops the cause.
FetchErrorWithoutCause(context) ==
  FunctionsError("FetchError", "Failed to fetch data from edge server",
                 Str("FetchError"), Undefined)

FetchError(context) ==
  FunctionsError("FetchError", "Failed to fetch data from edge server",
                 Str("FetchError"), context)

RelayError(context) ==
  FunctionsError("RelayError", "Relay error communicating with deno backend",
                 Str("RelayError"), context)

\* class HttpError: super('Edge server returned a non-2xx status code', context)
\* hands context to the parameter `name`; the parameter `context` stays undefined.
HttpError(status, statusText, context) ==
  [FunctionsError("HttpError", "Edge server returned a non-2xx status code",
                  context, Undefined)
   EXCEPT !.status = status, !.statusText = statusText]

\* index.ts: new Error(text)
PlainError(text) ==
  [cls |-> "Error", name |-> Str("Error"), message |-> text.v, context |-> Undefined,
   data |-> Undefined, status |-> 0, statusText |-> ""]

\* index.ts: class FunctionsError extends Error { data }
IdxFunctionsError(data) ==
  [cls |-> "FunctionsError", name |-> Str("Error"),
   message |-> "Invoke call returned non-2xx status", context |-> Undefined,
   data |-> data, status |-> 0, statusText |-> ""]

\* ------------------------------------------- serialization (part_002)
\* A RequestInit: [method, headers (a HeadersInit), body]; method "" and
\* body Undefined stand for properties that are not set.
\* Outcome of a step that may throw: [ok, val, err].
Ok(v) == [ok |-> TRUE, val |-> v, err |-> Undefined]
NoInit == [method |-> "", headers |-> HInitUndefined, body |-> Undefined]
ThrowsInit(e) == [ok |-> FALSE, val |-> NoInit, err |-> e]

DefaultInit(contentType, body) ==
  [method |-> "",
   headers |-> HInitHeaders(IF contentType = Absent
                            THEN HeadersDelete(EmptyHeaders, "Content-Type")
                            ELSE HeadersSet(EmptyHeaders, "Content-Type", contentType)),
   body |-> body]

\* A variant of defaultRequestTransform that tests typeof before instanceof
\* and so sends every object, binary ones included, as JSON.
DefaultRequestTransformJsonFirst(data) ==
  IF TypeOf(data) = "string" THEN Ok(DefaultInit("text/plain", data))
  ELSE IF InstanceOf(data, "FormData") THEN Ok(DefaultInit(Absent, data))
  ELSE IF JSONstringify(data).ok
       THEN Ok(DefaultInit("application/json", JSONstringify(data).val))
       ELSE ThrowsInit(JSONstringify(data).val)

\* function defaultRequestTransform(data)
DefaultRequestTransform(data) ==
  IF InstanceOf(data, "Blob") \/ InstanceOf(data, "ArrayBuffer")
  THEN Ok(DefaultInit("application/octet-stream", data))
  ELSE IF TypeOf(data) = "string"
  THEN Ok(DefaultInit("text/plain", data))
  ELSE IF InstanceOf(data, "FormData")
  THEN Ok(DefaultInit(Absent, data))
  ELSE IF JSONstringify(data).ok
       THEN Ok(DefaultInit("application/json", JSONstringify(data).val))
       ELSE ThrowsInit(JSONstringify(data).val)

\* The headers a caller supplies, per call (index.ts) or from a request
\* transform (part_002), as a plain record in key order.
Pair(n, v) == [n |-> n, v |-> v]
CallerHeaderLists ==
  { <<>>, <<Pair("Authorization", "Bearer evil")>>,
    <<Pair("AUTHORIZATION", "Bearer evil")>>, <<Pair("authorization", "Bearer evil")>>,
    <<Pair("X-Custom", "caller")>>, <<Pair("Content-Type", "text/csv")>>,
    <<Pair("bad name", "x")>> }

\* invokeOptions.requestTransform: absent (kind "none"), a callback that
\* returns {method, headers, body: input} (kind "returns") or one that
\* throws (kind "throws").
NoRequestTransform == [kind |-> "none", method |-> "", list |-> <<>>]
RequestTransforms ==
  {NoRequestTransform, [kind |-> "throws", method |-> "", list |-> <<>>]}
  \cup [kind : {"returns"}, method : {"", "GET"}, list : CallerHeaderLists]

\* requestTransform(input), with
\* requestTransform = invokeOptions?.requestTransform || defaultRequestTransform
ApplyRequestTransform(rt, input) ==
  CASE rt.kind = "none" -> DefaultRequestTransform(input)
    [] rt.kind = "throws" -> ThrowsInit(Exc("Error"))
    [] OTHER -> Ok([method |-> rt.method, headers |-> HInitRecord(rt.list),
                    body |-> input])

\* A variant that keeps a method the transform set.
KeepMethod(requestInit) ==
  IF requestInit.method = "" THEN [requestInit EXCEPT !.method = "POST"]
  ELSE requestInit

\* requestInit.method = 'POST'
EnforceMethod(requestInit) == [requestInit EXCEPT !.method = "POST"]

\* for (const header of this.headers.entries()) headers.set(name, value)
MergeOwnHeaders(hdrs, own) ==
  [n \in HeaderNames |-> IF own[n] # Absent THEN own[n] ELSE hdrs[n]]

\* The request handed to the transport: [url, method, headers, body].
NoRequest ==
  [url |-> [host |-> "", path |-> <<>>], method |-> "", headers |-> EmptyHeaders,
   body |-> Undefined]
\* new Request(url, requestInit); the method defaults to GET.
NewRequest(url, requestInit, hdrs) ==
  [url |-> url, method |-> IF requestInit.method = "" THEN "GET" ELSE requestInit.method,
   headers |-> hdrs, body |-> requestInit.body]

\* The serialization step of invoke (the inner try): [ok, val, err].
PrepareRequest(own, base, functionName, input, rt) ==
  LET t == ApplyRequestTransform(rt, input)
      requestInit == EnforceMethod(t.val)
      h == NewHeaders(requestInit.headers)
      url == NewURL(functionName, base)
  IN  IF ~t.ok THEN [ok |-> FALSE, val |-> NoRequest, err |-> t.err]
      ELSE IF ~h.ok THEN [ok |-> FALSE, val |-> NoRequest, err |-> Exc("TypeError")]
      ELSE IF ~url.ok THEN [ok |-> FALSE, val |-> NoRequest, err |-> Exc("TypeError")]
      ELSE [ok |-> TRUE, err |-> Undefined,
            val |-> NewRequest(url.val, requestInit, MergeOwnHeaders(h.val, own))]

\* -------------------------------------------------------------- responses
\* A response Content-Type header value is a sequence of tokens: a media
\* type, then parameters, each after ";" or "; ".
MediaTypes ==
  {"application/json", "text/plain", "application/octet-stream",
   "multipart/form-data", "text/html"}
RecognizedTypes == MediaTypes \ {"text/html"}
Separators == {<<";", " ">>, <<";">>}
Params == {"charset=utf-8"}

RECURSIVE WithParams(_)
WithParams(k) ==
  IF k = 0 THEN {<<t>> : t \in MediaTypes}
  ELSE WithParams(k - 1) \cup
       {s \o sep \o <<p>> : s \in WithParams(k - 1), sep \in Separators, p \in Params}

\* response.headers.get('Content-Type'): null (present FALSE) or a string.
NoContentType == [present |-> FALSE, toks |-> <<>>]
ContentTypes ==
  {NoContentType} \cup [present : {TRUE}, toks : WithParams(MaxParams) \cup {<<>>}]

\* Response bodies, as text; BrokenBody is a body whose stream fails (or is
\* already consumed), so that every read of it rejects.
FormBody == "--b; name=a; 1; --b--"
BrokenBody == "<stream error>"
Bodies == {ObjText, "null", "hello", FormBody, BrokenBody}

Statuses == {200, 300, 403}
StatusText(status) ==
  CASE status = 200 -> "OK" [] status = 403 -> "Forbidden" [] OTHER -> ""

\* response.headers.get('x-relay-error'): Absent or the header's value.
RelayValues == {Absent, "true", "false"}

Responses ==
  { [status |-> s, statusText |-> StatusText(s), relay |-> r, contentType |-> ct,
     body |-> b] :
      s \in Statuses, r \in RelayValues, ct \in ContentTypes, b \in Bodies }
NoResponse ==
  [status |-> 0, statusText |-> "", relay |-> Absent, contentType |-> NoContentType,
   body |-> ""]

\* response.ok
\* A variant of Response.ok that accepts every status below 400.
ResponseOkBelow400(response) == response.status >= 200 /\ response.status <= 399

ResponseOk(response) == response.status >= 200 /\ response.status <= 299

\* The body-reading methods of a Response: [ok, val]; on rejection val is
\* the exception.
ReadBody(method, response) ==
  CASE response.body = BrokenBody -> [ok |-> FALSE, val |-> Exc("TypeError")]
    [] method = "text" -> [ok |-> TRUE, val |-> Str(response.body)]
    [] method = "json" -> JSONparse(response.body)
    [] method = "blob" -> [ok |-> TRUE, val |-> Val("Blob", response.body)]
    [] method = "arrayBuffer" -> [ok |-> TRUE, val |-> Val("ArrayBuffer", response.body)]
    [] method = "formData" ->
         IF response.body = FormBody
         THEN [ok |-> TRUE, val |-> Val("FormData", response.body)]
         ELSE [ok |-> FALSE, val |-> Exc("TypeError")]
    [] OTHER -> [ok |-> FALSE, val |-> Exc("Error")]

\* String.prototype.split on the two-character separator "; ".
RECURSIVE SplitSemicolonSpace(_, _, _)
SplitSemicolonSpace(acc, cur, toks) ==
  IF toks = <<>> THEN Append(acc, cur)
  ELSE IF Len(toks) >= 2 /\ toks[1] = ";" /\ toks[2] = " "
  THEN SplitSemicolonSpace(Append(acc, cur), <<>>, SubSeq(toks, 3, Len(toks)))
  ELSE SplitSemicolonSpace(acc, Append(cur, toks[1]), Tail(toks))

\* contentType?.split('; ')
ResponseTypes(contentType) == SplitSemicolonSpace(<<>>, <<>>, contentType.toks)

\* responseTypes.indexOf(type) >= 0
Includes(responseTypes, type) ==
  \E i \in 1..Len(responseTypes) : responseTypes[i] = <<type>>

\* A variant of defaultResponseTransform that reads text/plain as JSON.
DefaultResponseTransformTextAsJson(response) ==
  LET responseTypes == ResponseTypes(response.contentType)
  IN  CASE ~response.contentType.present -> "json"
        [] Includes(responseTypes, "application/json") -> "json"
        [] Includes(responseTypes, "application/octet-stream") -> "blob"
        [] Includes(responseTypes, "text/plain") -> "json"
        [] Includes(responseTypes, "multipart/form-data") -> "formData"
        [] OTHER -> "throw"

\* async function defaultResponseTransform(response): the body reader it
\* calls, "throw" when it throws for want of a suitable Content-Type.
DefaultResponseTransform(response) ==
  LET responseTypes == ResponseTypes(response.contentType)
  IN  CASE ~response.contentType.present -> "json"
        [] Includes(responseTypes, "application/json") -> "json"
        [] Includes(responseTypes, "application/octet-stream") -> "blob"
        [] Includes(responseTypes, "text/plain") -> "text"
        [] Includes(responseTypes, "multipart/form-data") -> "formData"
        [] OTHER -> "throw"

\* invokeOptions.responseTransform: absent ("none"), async r => r.text()
\* ("text"), a callback resolving to undefined without reading the body
\* ("undefined"), or a callback that throws ("throws").
ResponseTransforms == {"none", "text", "undefined", "throws"}

\* The body reader responseTransform(response) calls: a method name, "" when
\* it reads nothing, "throw" when it throws.
TransformReader(rsp, response) ==
  CASE rsp = "none" -> DefaultResponseTransform(response)
    [] rsp = "text" -> "text"
    [] rsp = "undefined" -> ""
    [] OTHER -> "throw"

\* A variant of BodyReads that reads the body as text before the chosen
\* reader.
BodyReadsTextFirst(reader) ==
  IF reader \in {"", "throw"} THEN <<>> ELSE <<"text", reader>>

\* The body-reading methods deserialization calls on the response, in
\* order: the chosen reader, or none when it reads nothing or throws first.
BodyReads(reader) == IF reader \in {"", "throw"} THEN <<>> ELSE <<reader>>

\* What `await responseTransform(response)` settles to: [ok, val].
TransformResult(reader, response) ==
  CASE reader = "" -> [ok |-> TRUE, val |-> Undefined]
    [] reader = "throw" -> [ok |-> FALSE, val |-> Exc("Error")]
    [] OTHER -> ReadBody(reader, response)

\* ------------------------------------------------------------ call state
\* The one invoke call in flight. pc is where the call stands: "idle" (no
\* call), "fetchCalled" (this.fetch has just been called with the request),
\* the await it is suspended at ("awaitFetch", "awaitText", "awaitData"), or
\* "done" once it has returned or raised.
\* outcome: "pending", "returned" (data, error, status, statusText are the
\* fields of the result; status 0 and statusText "" stand for fields that
\* are not set) or "raised" (error is the exception).
\* fetchCalls counts the calls of this.fetch, rejection is what this.fetch
\* threw or rejected with (Undefined when it did not), reads lists the
\* body-reading methods called on the response, in order.
NoCall ==
  [client |-> "", pc |-> "idle", functionName |-> <<>>, input |-> Undefined,
   requestTransform |-> NoRequestTransform, responseTransform |-> "none",
   callerHeaders |-> <<>>, responseType |-> "",
   request |-> NoRequest, rawHeaders |-> <<>>, fetchCalls |-> 0,
   rejection |-> Undefined, response |-> NoResponse, reader |-> "", reads |-> <<>>,
   outcome |-> "pending", data |-> Undefined, error |-> NoError,
   status |-> 0, statusText |-> ""]

\* Once the transport has taken the request, the call's arguments and its
\* request are read no more (only invokeOptions.responseTransform /
\* responseType are): the call state drops them.
AfterTransport(c) ==
  [c EXCEPT !.functionName = <<>>, !.input = Undefined,
            !.requestTransform = NoRequestTransform, !.callerHeaders = <<>>,
            !.request = NoRequest, !.rawHeaders = <<>>]

\* A variant of RequestHeaders in which the request shares the client's
\* Headers object instead of holding a copy of its entries.
RequestHeadersShared ==
  [n \in HeaderNames |->
     IF call.client = "transform" /\ headers[n] # Absent THEN headers[n]
     ELSE call.request.headers[n]]

\* The header set of the request the transport holds: the Headers object
\* invoke built for this call.
RequestHeaders == call.request.headers

\* What the transport throws or rejects with: a network error, an abort.
TransportCauses == {Exc("TypeError"), Exc("AbortError")}

\* The headers given to the constructor, as a plain record.
OwnHeaderInits ==
  { <<>>, <<Pair("Authorization", "Bearer anon")>>,
    <<Pair("X-Custom", "base"), Pair("Content-Type", "application/json")>> }

\* ------------------------------------------------- FunctionsClient (part_002)
\* A variant of the catch that returns the error whatever the flag says.
DeliverIgnoresFlag(c, error) ==
  [c EXCEPT !.pc = "done", !.outcome = "returned", !.data = JsNull, !.error = error]

\* A variant of the catch that returns {error} and leaves data unset.
DeliverOmitsData(c, error) ==
  IF shouldThrowOnError
  THEN [c EXCEPT !.pc = "done", !.outcome = "raised", !.error = error]
  ELSE [c EXCEPT !.pc = "done", !.outcome = "returned", !.error = error]

\* The catch of invoke: throw error, or return {data: null, error}.
Deliver(c, error) ==
  IF shouldThrowOnError
  THEN [c EXCEPT !.pc = "done", !.outcome = "raised", !.error = error]
  ELSE [c EXCEPT !.pc = "done", !.outcome = "returned", !.data = JsNull,
                 !.error = error]

\* return { data, error: null }
Succeed(c, data) ==
  [c EXCEPT !.pc = "done", !.outcome = "returned", !.data = data, !.error = NoError]

\* isRelayError && isRelayError === 'true'
IsRelayError(response) ==
  response.relay # Absent /\ response.relay = "true"

\* setAuth(token)
SetAuth ==
  /\ variant = "transform"
  /\ \E token \in Tokens :
       headers' = HeadersSet(headers, "Authorization", Bearer(token))
  /\ UNCHANGED <<variant, idxHeaders, shouldThrowOnError, call>>

\* invoke(functionName, input, invokeOptions) up to `await this.fetch(request)`,
\* or to its end when the serialization step throws.
Invoke ==
  /\ variant = "transform"
  /\ call.pc = "idle"
  /\ \E functionName \in FunctionNames, input \in Inputs,
        rt \in RequestTransforms, rsp \in ResponseTransforms :
       LET p == PrepareRequest(headers, BaseURL, functionName, input, rt)
           c == [NoCall EXCEPT !.client = "transform", !.functionName = functionName,
                               !.input = input, !.requestTransform = rt,
                               !.responseTransform = rsp]
       IN  call' = IF p.ok
                   THEN [c EXCEPT !.pc = "fetchCalled", !.request = p.val,
                                  !.fetchCalls = 1]
                   ELSE Deliver(c, SerializationError(p.err))
  /\ UNCHANGED <<variant, headers, idxHeaders, shouldThrowOnError>>

\* The transport has taken the request of this.fetch(request); invoke is
\* suspended at the await (either variant).
RequestSent ==
  /\ call.pc = "fetchCalled"
  /\ call' = [AfterTransport(call) EXCEPT !.pc = "awaitFetch"]
  /\ UNCHANGED <<variant, headers, idxHeaders, shouldThrowOnError>>

\* The caller has received the result or the exception of the call (either
\* variant); the next call may start.
Completed ==
  /\ call.pc = "done"
  /\ call' = NoCall
  /\ UNCHANGED <<variant, headers, idxHeaders, shouldThrowOnError>>

\* this.fetch(request) rejects (or threw): throw new FetchError(error).
FetchRejected ==
  /\ call.client = "transform" /\ call.pc = "awaitFetch"
  /\ \E cause \in TransportCauses :
       call' = Deliver([call EXCEPT !.rejection = cause], FetchError(cause))
  /\ UNCHANGED <<variant, headers, idxHeaders, shouldThrowOnError>>

\* this.fetch(request) resolves to `response`: the relay test, then the call
\* of response.text() or of responseTransform(response).
FetchResolved ==
  /\ call.client = "transform" /\ call.pc = "awaitFetch"
  /\ \E response \in Responses :
       LET c == [call EXCEPT !.response = response]
           reader == TransformReader(call.responseTransform, response)
       IN  call' =
             IF IsRelayError(response)
             THEN [c EXCEPT !.pc = "awaitText", !.reader = "text", !.reads = <<"text">>]
             ELSE IF call.responseTransform = "throws"
             THEN Deliver(c, DeserializationError(Exc("Error")))
             ELSE [c EXCEPT !.pc = "awaitData", !.reader = reader,
                            !.reads = BodyReads(reader)]
  /\ UNCHANGED <<variant, headers, idxHeaders, shouldThrowOnError>>

\* `await response.text()` of the relay branch settles: throw new
\* RelayError(text); a rejection reaches the outer catch as it is.
TextSettled ==
  /\ call.client = "transform" /\ call.pc = "awaitText"
  /\ LET r == ReadBody("text", call.response)
     IN  call' = IF r.ok THEN Deliver(call, RelayError(r.val))
                 ELSE Deliver(call, NativeError(r.val))
  /\ UNCHANGED <<variant, headers, idxHeaders, shouldThrowOnError>>

\* `await responseTransform(response)` settles: DeserializationError on a
\* rejection, else the status test, else the success result.
DataSettled ==
  /\ call.client = "transform" /\ call.pc = "awaitData"
  /\ LET r == TransformResult(call.reader, call.response)
     IN  call' =
           IF ~r.ok THEN Deliver(call, DeserializationError(r.val))
           ELSE IF ~ResponseOk(call.response)
           THEN Deliver(call, HttpError(call.response.status,
                                        call.response.statusText, r.val))
           ELSE Succeed(call, r.val)
  /\ UNCHANGED <<variant, headers, idxHeaders, shouldThrowOnError>>

\* ------------------------------------------------- FunctionsClient (index.ts)
\* A plain object as a list of name/value pairs in key order.
\* obj[name] = value
RecordSet(obj, name, value) ==
  IF \E i \in 1..Len(obj) : obj[i].n = name
  THEN [i \in 1..Len(obj) |-> IF obj[i].n = name THEN Pair(name, value) ELSE obj[i]]
  ELSE Append(obj, Pair(name, value))

RECURSIVE AssignAll(_, _)
AssignAll(target, source) ==
  IF source = <<>> THEN target
  ELSE AssignAll(RecordSet(target, source[1].n, source[1].v), Tail(source))

\* Object.assign({}, a, b)
ObjectAssign(a, b) == AssignAll(AssignAll(<<>>, a), b)

\* The per-call headers of index.ts: valid header names only (with an
\* invalid one the transport rejects).
IdxCallerHeaders ==
  {l \in CallerHeaderLists : \A i \in 1..Len(l) : ValidName(l[i].n)}
IdxBodies == {Undefined, Str("hello")}
ResponseTypeHints == {"", "json", "arrayBuffer", "blob", "text"}

\* A variant of IdxHeadersAfterInvoke in which Object.assign writes into
\* this.headers instead of a fresh object.
IdxHeadersAssignedInPlace(own, hdrs) == AssignAll(own, hdrs)

\* this.headers after invoke has merged the per-call headers: the target of
\* Object.assign is a fresh object, so this.headers keeps its entries.
IdxHeadersAfterInvoke(own, hdrs) == own

\* `${this.url}/${functionName}`, as the transport parses it.
IdxURL(functionName) == ParseURL(BaseTokens \o <<"/">> \o functionName).val

\* A variant of IdxReader that reads as JSON only when asked to, and as
\* text without a hint.
IdxReaderTextByDefault(responseType) ==
  CASE responseType = "json" -> "json"
    [] responseType = "arrayBuffer" -> "arrayBuffer"
    [] responseType = "blob" -> "blob"
    [] OTHER -> "text"

\* The body reader the responseType option selects.
IdxReader(responseType) ==
  CASE responseType = "" \/ responseType = "json" -> "json"
    [] responseType = "arrayBuffer" -> "arrayBuffer"
    [] responseType = "blob" -> "blob"
    [] OTHER -> "text"

\* The catch of invoke: throw error, or return the failure with the
\* status and statusText read so far.
IdxDeliver(c, error) ==
  IF shouldThrowOnError
  THEN [c EXCEPT !.pc = "done", !.outcome = "raised", !.error = error]
  ELSE [c EXCEPT !.pc = "done", !.outcome = "returned", !.data = JsNull,
                 !.error = error, !.status = c.response.status,
                 !.statusText = c.response.statusText]

\* setAuth(token): this.headers.Authorization = `Bearer ${token}`
IdxSetAuth ==
  /\ variant = "idx"
  /\ \E token \in Tokens :
       idxHeaders' = RecordSet(idxHeaders, "Authorization", Bearer(token))
  /\ UNCHANGED <<variant, headers, shouldThrowOnError, call>>

\* invoke(functionName, {headers, body, responseType}) up to
\* `await this.fetch(url, {method, headers, body})`.
IdxInvoke ==
  /\ variant = "idx"
  /\ call.pc = "idle"
  /\ \E functionName \in FunctionNames, hdrs \in IdxCallerHeaders,
        body \in IdxBodies, responseType \in ResponseTypeHints :
       LET merged == ObjectAssign(idxHeaders, hdrs)
       IN  /\ idxHeaders' = IdxHeadersAfterInvoke(idxHeaders, hdrs)
           /\ call' = [NoCall EXCEPT
                          !.client = "idx", !.pc = "fetchCalled",
                          !.functionName = functionName, !.input = body,
                          !.callerHeaders = hdrs, !.responseType = responseType,
                          !.request = [url |-> IdxURL(functionName), method |-> "POST",
                                       headers |-> NewHeaders(HInitRecord(merged)).val,
                                       body |-> body],
                          !.rawHeaders = merged, !.fetchCalls = 1]
  /\ UNCHANGED <<variant, headers, shouldThrowOnError>>

\* this.fetch rejects: the rejection reaches the catch as it is.
IdxFetchRejected ==
  /\ call.client = "idx" /\ call.pc = "awaitFetch"
  /\ \E cause \in TransportCauses :
       call' = IdxDeliver([call EXCEPT !.rejection = cause], NativeError(cause))
  /\ UNCHANGED <<variant, headers, idxHeaders, shouldThrowOnError>>

\* this.fetch resolves: status and statusText are read, then the relay
\* test, then the body reader of the responseType option is called.
IdxFetchResolved ==
  /\ call.client = "idx" /\ call.pc = "awaitFetch"
  /\ \E response \in Responses :
       LET c == [call EXCEPT !.response = response]
           reader == IdxReader(call.responseType)
       IN  call' =
             IF IsRelayError(response)
             THEN [c EXCEPT !.pc = "awaitText", !.reader = "text", !.reads = <<"text">>]
             ELSE [c EXCEPT !.pc = "awaitData", !.reader = reader,
                            !.reads = BodyReads(reader)]
  /\ UNCHANGED <<variant, headers, idxHeaders, shouldThrowOnError>>

\* `await response.text()` of the relay branch settles: throw new Error(text).
IdxTextSettled ==
  /\ call.client = "idx" /\ call.pc = "awaitText"
  /\ LET r == ReadBody("text", call.response)
     IN  call' = IF r.ok THEN IdxDeliver(call, PlainError(r.val))
                 ELSE IdxDeliver(call, NativeError(r.val))
  /\ UNCHANGED <<variant, headers, idxHeaders, shouldThrowOnError>>

\* The body read settles: the status test, then the success result.
IdxDataSettled ==
  /\ call.client = "idx" /\ call.pc = "awaitData"
  /\ LET r == ReadBody(call.reader, call.response)
     IN  call' =
           IF ~r.ok THEN IdxDeliver(call, NativeError(r.val))
           ELSE IF ~ResponseOk(call.response)
           THEN IdxDeliver(call, IdxFunctionsError(r.val))
           ELSE [call EXCEPT !.pc = "done", !.outcome = "returned", !.data = r.val,
                             !.error = NoError, !.status = call.response.status,
                             !.statusText = call.response.statusText]
  /\ UNCHANGED <<variant, headers, idxHeaders, shouldThrowOnError>>

\* ---------------------------------------------------------- specification
\* After construction: both clients built from the same header record and
\* the same shouldThrowOnError option.
Init ==
  /\ variant \in {"transform", "idx"}
  /\ \E l \in OwnHeaderInits :
       /\ headers = NewHeaders(HInitRecord(l)).val
       /\ idxHeaders = l
  /\ shouldThrowOnError \in BOOLEAN
  /\ call = NoCall

Next ==
  \/ SetAuth
  \/ Invoke
  \/ RequestSent
  \/ Completed
  \/ FetchRejected
  \/ FetchResolved
  \/ TextSettled
  \/ DataSettled
  \/ IdxSetAuth
  \/ IdxInvoke
  \/ IdxFetchRejected
  \/ IdxFetchResolved
  \/ IdxTextSettled
  \/ IdxDataSettled

Spec == Init /\ [][Next]_vars

\* ------------------------------------------------------------------ claims
\* The call has finished and the transport had returned a response.
DoneWithResponse == call.pc = "done" /\ call.response # NoResponse

\* The error the relay branch builds from the body text: a RelayError in
\* part_002, an Error carrying the text in index.ts.
IsRelayKind(c) ==
  IF c.client = "transform" THEN c.error.cls = "RelayError"
  ELSE c.error = PlainError(Str(c.response.body))

\* C1: every response with x-relay-error "true" ends in a Relay-kind error,
\* whatever its status and Content-Type.
C1_RelayResponseGivesRelayError ==
  (DoneWithResponse /\ call.response.relay = "true") => IsRelayKind(call)

\* C2: a non-2xx response without the relay header whose body deserializes
\* ends in an Http error carrying the status, the status text and, as its
\* context, the deserialized body.
C2_HttpErrorCarriesStatusAndBody ==
  (/\ DoneWithResponse /\ call.client = "transform"
   /\ ~IsRelayError(call.response) /\ ~ResponseOk(call.response)
   /\ call.responseTransform # "throws"
   /\ TransformResult(call.reader, call.response).ok)
  => /\ call.error.cls = "HttpError"
     /\ call.error.status = call.response.status
     /\ call.error.statusText = call.response.statusText
     /\ call.error.context = TransformResult(call.reader, call.response).val

\* The Invoker's own header set as the transport reads header sets.
OwnHeaders ==
  IF variant = "transform" THEN headers ELSE NewHeaders(HInitRecord(idxHeaders)).val

\* C3: the request of an invoke carries every header of the Invoker's own
\* header set with the Invoker's value (so Authorization is the Bearer value
\* of the last setAuth), whatever headers the caller supplies.
C3_OwnHeadersWin ==
  [][(call.pc = "idle" /\ call'.pc = "fetchCalled")
       => \A n \in HeaderNames :
            OwnHeaders[n] # Absent => call'.request.headers[n] = OwnHeaders[n]]_vars

\* C4: with shouldThrowOnError false a finished call has returned, and an
\* error comes with data null; with it true an error is raised and a
\* returned result carries no error.
C4_UniformDelivery ==
  call.pc = "done" =>
    IF shouldThrowOnError
    THEN (call.outcome = "returned" => call.error = NoError)
         /\ (call.outcome = "raised" => call.error # NoError)
    ELSE call.outcome = "returned"
         /\ (call.error # NoError => call.data = JsNull)

C4_Witness ==
  /\ call.pc = "done" /\ shouldThrowOnError /\ call.outcome = "raised"
  /\ call.error.cls = "DeserializationError"

\* A side of a result is populated when it is neither null nor undefined.
Populated(v) == v # JsNull /\ v # Undefined

\* C5 as stated: a returned result has exactly one of data and error
\* populated.
C5_ExactlyOneSide ==
  (call.pc = "done" /\ call.outcome = "returned")
  => (Populated(call.data) /\ call.error = NoError)
     \/ (call.error # NoError /\ call.data = JsNull)

\* C5 amended: a returned result never has both sides populated: with an
\* error data is null, and without one data is the deserialized value,
\* which may itself be null or undefined.
C5_NeverBothSides ==
  (call.pc = "done" /\ call.outcome = "returned")
  => /\ call.error # NoError => call.data = JsNull
     /\ call.error = NoError =>
          /\ ResponseOk(call.response)
          /\ call.data = IF call.client = "transform"
                         THEN TransformResult(call.reader, call.response).val
                         ELSE ReadBody(call.reader, call.response).val

C5_Witness ==
  /\ call.pc = "done" /\ call.outcome = "returned"
  /\ call.error = NoError /\ call.data = JsNull

\* The call is at the point where this.fetch has been called with the
\* request built by the default serialization of part_002.
DefaultRequestSent ==
  /\ call.pc = "fetchCalled" /\ call.client = "transform"
  /\ call.requestTransform.kind = "none"

ClaimedContentType(input) ==
  CASE input.t \in {"Blob", "File", "ArrayBuffer"} -> "application/octet-stream"
    [] input.t = "string" -> "text/plain"
    [] input.t = "FormData" -> Absent
    [] OTHER -> "application/json"

ClaimedBody(input) ==
  IF input.t \in {"Blob", "File", "ArrayBuffer", "string", "FormData"} THEN input
  ELSE JSONstringify(input).val

\* C6 as stated: with no request transform the request's body and
\* Content-Type follow from the input's runtime type alone.
C6_TypeChoosesBodyAndContentType ==
  DefaultRequestSent =>
    /\ call.request.body = ClaimedBody(call.input)
    /\ call.request.headers["content-type"] = ClaimedContentType(call.input)

\* C6 amended: the body follows from the input's runtime type, and so does
\* the Content-Type unless the Invoker's own header set has a Content-Type,
\* whose value the request then carries.
C6_TypeChoosesUnlessOwnContentType ==
  DefaultRequestSent =>
    /\ call.request.body = ClaimedBody(call.input)
    /\ call.request.headers["content-type"] =
         IF headers["content-type"] # Absent THEN headers["content-type"]
         ELSE ClaimedContentType(call.input)

C6_Witness ==
  /\ DefaultRequestSent /\ call.input.t = "FormData"
  /\ call.request.body = call.input
  /\ call.request.headers["content-type"] = Absent

\* The call has a response without relay error and deserializes it with
\* defaultResponseTransform.
DefaultDeserialization ==
  /\ call.client = "transform" /\ call.responseTransform = "none"
  /\ call.pc \in {"awaitData", "done"}
  /\ call.response # NoResponse /\ ~IsRelayError(call.response)

\* The media type of a Content-Type value: the text before the first ";".
MediaType(contentType) ==
  IF contentType.toks = <<>> THEN "" ELSE contentType.toks[1]

ClaimedReader(type) ==
  CASE type = "application/json" -> "json"
    [] type = "text/plain" -> "text"
    [] type = "application/octet-stream" -> "blob"
    [] type = "multipart/form-data" -> "formData"
    [] OTHER -> "throw"

\* C7: default deserialization reads the body as JSON, text, blob or form
\* data when the Content-Type is exactly the matching media type, as JSON
\* when the header is absent, and ends in a DeserializationError when the
\* header names no recognized type.
C7_ReaderFromContentType ==
  DefaultDeserialization =>
    LET ct == call.response.contentType
    IN  /\ ~ct.present => call.reader = "json"
        /\ (ct.present /\ Len(ct.toks) = 1) => call.reader = ClaimedReader(ct.toks[1])
        /\ (ct.present /\ MediaType(ct) \notin RecognizedTypes) =>
             /\ call.reader = "throw" /\ call.reads = <<>>
             /\ call.pc = "done" => call.error.cls = "DeserializationError"

C7_Witness ==
  /\ DefaultDeserialization /\ call.pc = "done"
  /\ call.response.contentType.present
  /\ MediaType(call.response.contentType) = "text/html"
  /\ call.error.cls = "DeserializationError"

\* C8: a Content-Type with parameters is deserialized as its media type
\* alone, with or without a blank after the semicolon.
C8_ParametersIgnored ==
  (DefaultDeserialization /\ call.response.contentType.present)
  => call.reader = ClaimedReader(MediaType(call.response.contentType))

\* C9: every request handed to the transport has method POST.
C9_AlwaysPost ==
  call.pc = "fetchCalled" => call.request.method = "POST"

C9_Witness ==
  /\ call.pc = "fetchCalled" /\ call.requestTransform.kind = "returns"
  /\ call.requestTransform.method = "GET" /\ call.request.method = "POST"

\* The serialization step of the call fails: the request transform throws,
\* JSON encoding throws, or the request cannot be built (invalid header
\* name, invalid URL).
SerializationFails(c) ==
  \/ c.requestTransform.kind = "throws"
  \/ c.requestTransform.kind = "none" /\ c.input.v = "<cycle>"
  \/ \E i \in 1..Len(c.requestTransform.list) : c.requestTransform.list[i].n = "bad name"
  \/ c.functionName = <<"http:", "//">>

\* C10: the transport is called zero times when serialization fails, and
\* the result is then a SerializationError; otherwise it is called exactly
\* once.
C10_TransportCalledAtMostOnce ==
  call.client = "transform" =>
    /\ call.fetchCalls <= 1
    /\ call.pc = "fetchCalled" => (call.fetchCalls = 1 /\ ~SerializationFails(call))
    /\ call.pc \in {"awaitFetch", "awaitText", "awaitData"} => call.fetchCalls = 1
    /\ call.pc = "done" =>
         /\ call.fetchCalls = 0 <=> call.error.cls = "SerializationError"
         /\ call.fetchCalls = 0 => SerializationFails(call)

C10_Witness ==
  /\ call.client = "transform" /\ call.pc = "done" /\ call.fetchCalls = 0
  /\ call.requestTransform.kind = "none" /\ call.input.v = "<cycle>"
  /\ call.error.cls = "SerializationError"

\* The transport call of the finished call threw or rejected.
TransportFailed == call.pc = "done" /\ call.rejection # Undefined

C12_TargetStaysOnBaseHost ==
  call.pc = "fetchCalled" => call.request.url.host = BaseURL.host

\* A finished call whose response has no x-relay-error "true" and a status
\* outside 200..299.
DoneNon2xx ==
  /\ DoneWithResponse /\ call.response.relay # "true"
  /\ call.response.status \notin 200..299

\* The error of the status test: an HttpError in part_002, a FunctionsError
\* in index.ts.
IsHttpKind(c) ==
  IF c.client = "transform" THEN c.error.cls = "HttpError"
  ELSE c.error.cls = "FunctionsError"

\* What reading the body of the finished call settled to: [ok, val].
Deserialized(c) ==
  IF c.client = "transform"
  THEN IF c.responseTransform = "throws"
       THEN [ok |-> FALSE, val |-> Exc("Error")]
       ELSE TransformResult(c.reader, c.response)
  ELSE ReadBody(c.reader, c.response)

\* C13 as stated: a non-2xx response without the relay header is reported as
\* an Http error, whatever its Content-Type and whether or not its body
\* deserializes.
C13_Non2xxAlwaysHttp == DoneNon2xx => IsHttpKind(call)

\* C13: a response is classified by the relay header first, then by the
\* deserialization of its body, then by its status: a non-2xx response
\* without the relay header is reported as an Http error when its body
\* deserializes, and as the deserialization failure when it does not.
C13_Non2xxHttpWhenBodyDeserializes ==
  DoneNon2xx =>
    IF Deserialized(call).ok THEN IsHttpKind(call)
    ELSE IF call.client = "transform"
         THEN /\ call.error.cls = "DeserializationError"
              /\ call.error.context = Deserialized(call).val
         ELSE call.error = NativeError(Deserialized(call).val)

C13_Witness ==
  /\ DoneNon2xx /\ call.client = "transform" /\ call.responseTransform = "none"
  /\ call.response.status = 403
  /\ MediaType(call.response.contentType) = "text/html"
  /\ call.error.cls = "DeserializationError"

\* The five error kinds of part_002.
ErrorKinds ==
  {"SerializationError", "FetchError", "RelayError", "DeserializationError",
   "HttpError"}

\* C14: every error invoke delivers is of one of the five kinds and its name
\* is the name of that kind.
C14_EveryErrorTagged ==
  (call.pc = "done" /\ call.client = "transform" /\ call.error # NoError) =>
    /\ call.error.cls \in ErrorKinds
    /\ call.error.name = Str(call.error.cls)

\* The names of the per-call headers of index.ts, as Headers spells them.
CallerNames(c) == {Lower(c.callerHeaders[i].n) : i \in 1..Len(c.callerHeaders)}

\* C15: the request of an invoke takes the client's headers as they stand
\* when invoke starts, and while the transport holds the request no step,
\* setAuth included, changes its header set.
C15_RequestHeadersSnapshot ==
  [][/\ (call.pc = "idle" /\ call'.pc = "fetchCalled") =>
          \A n \in HeaderNames :
            (OwnHeaders[n] # Absent /\ n \notin CallerNames(call')) =>
              RequestHeaders'[n] = OwnHeaders[n]
     /\ (call.pc = "fetchCalled" /\ call'.pc = "fetchCalled") =>
          RequestHeaders' = RequestHeaders]_vars

C15_Witness ==
  /\ variant = "transform" /\ call.pc = "fetchCalled"
  /\ RequestHeaders["authorization"] = "Bearer anon"
  /\ RequestHeaders["x-custom"] = Absent
  /\ headers["authorization"] \in {Bearer(t) : t \in Tokens}

\* An index.ts call whose response went to the responseType branch.
IdxDeserialization ==
  /\ call.client = "idx" /\ call.pc \in {"awaitData", "done"}
  /\ call.response # NoResponse /\ call.response.relay # "true"

\* The value each reader of C16 gives for a readable body.
HintedValue(hint, body) ==
  CASE hint = "arrayBuffer" -> Val("ArrayBuffer", body)
    [] hint = "blob" -> Val("Blob", body)
    [] hint = "text" -> Str(body)
    [] OTHER -> JSONparse(body).val

\* C16: in index.ts the responseType hint alone selects the body reader,
\* whatever the Content-Type of the response: json, arrayBuffer, blob and
\* text each select the reader of that name, and without a hint the body is
\* parsed as JSON.
C16_HintSelectsReader ==
  IdxDeserialization =>
    /\ call.reader = (IF call.responseType = "" THEN "json" ELSE call.responseType)
    /\ call.reads = <<call.reader>>
    /\ (call.pc = "done" /\ call.error = NoError) =>
         call.data = HintedValue(call.responseType, call.response.body)

C16_Witness ==
  /\ IdxDeserialization /\ call.pc = "done" /\ call.error = NoError
  /\ call.responseType = "arrayBuffer"
  /\ MediaType(call.response.contentType) = "application/json"
  /\ call.data.t = "ArrayBuffer"

\* C17: no step of an invoke call changes the client's header set or its
\* shouldThrowOnError flag; the header set changes only in a setAuth step,
\* which leaves the call alone and changes the Authorization entry only.
C17_InvokeLeavesClientUnchanged ==
  [][/\ shouldThrowOnError' = shouldThrowOnError
     /\ call' # call => (headers' = headers /\ idxHeaders' = idxHeaders)
     /\ OwnHeaders' # OwnHeaders =>
          /\ OwnHeaders'["authorization"] \in {Bearer(t) : t \in Tokens}
          /\ \A n \in HeaderNames \ {"authorization"} : OwnHeaders'[n] = OwnHeaders[n]
    ]_vars

C17_Witness ==
  /\ variant = "idx" /\ call.pc = "fetchCalled"
  /\ "x-custom" \in CallerNames(call)
  /\ RequestHeaders["x-custom"] # Absent
  /\ OwnHeaders["x-custom"] = Absent

\* A call that holds a response and deserializes by default: part_002
\* without a response transform, index.ts always.
DefaultRead ==
  /\ call.response # NoResponse
  /\ call.client = "idx" \/ call.responseTransform = "none"

BodyReaders == {"json", "text", "blob", "arrayBuffer", "formData"}

\* C18 as stated: a relay-error response is read as text only, and any
\* other response is read by exactly one of the five readers, once.
C18_ExactlyOneRead ==
  DefaultRead =>
    IF call.response.relay = "true" THEN call.reads = <<"text">>
    ELSE Len(call.reads) = 1 /\ call.reads[1] \in BodyReaders

\* C18: a relay-error response is read as text only and is never
\* deserialized; any other response is read at most once, by one of the
\* five readers: exactly once in index.ts and in part_002 when the
\* Content-Type is absent or a recognized media type, and not at all only
\* when part_002 finds no recognized type and throws.
C18_AtMostOneRead ==
  DefaultRead =>
    LET ct == call.response.contentType
    IN  IF call.response.relay = "true"
        THEN /\ call.reads = <<"text">> /\ call.pc # "awaitData"
             /\ call.error.cls # "DeserializationError"
        ELSE /\ Len(call.reads) <= 1
             /\ \A i \in 1..Len(call.reads) : call.reads[i] \in BodyReaders
             /\ (\/ call.client = "idx" \/ ~ct.present
                 \/ (Len(ct.toks) = 1 /\ ct.toks[1] \in RecognizedTypes))
                  => Len(call.reads) = 1
             /\ call.reads = <<>> =>
                  /\ call.client = "transform" /\ ct.present
                  /\ call.pc = "done" => call.error.cls = "DeserializationError"

C18_Witness ==
  /\ DefaultRead /\ call.pc = "done" /\ call.client = "transform"
  /\ call.response.relay # "true" /\ call.response.status = 200
  /\ call.response.contentType.present
  /\ call.reads = <<>>

====
